---- MODULE Spec2Model ----
(***************************************************************************)
(* GameManager (src/gamemanager.cpp): the roster, the round life cycle,    *)
(* the game tick and the connection handling of the arena server.          *)
(*                                                                         *)
(* A player is a record; the Player object is identified by its place in   *)
(* the roster (1-based index into m_players).                              *)
(*   id       Player::id()                                                 *)
(*   pos      Player::position(), <<x, y>>                                 *)
(*   alive    Player::isAlive()                                            *)
(*   command  Player::command()                                            *)
(*   wins     the win counter (Player::addWin)                             *)
(*   net      networkClient() != NULL                                      *)
(*   conn     the channel has not disconnected yet                         *)
(*   justDied it died since the previous tick (bookkeeping for the claims) *)
(*   leftInRound its channel closed during a round (bookkeeping)           *)
(***************************************************************************)
EXTENDS Integers, Sequences, FiniteSets, TLC

\* ---- bounds of the model -------------------------------------------------
MaxJoins == 3         \* players that join (connect or local add) in one run
MaxCommands == 1     \* command events (network intents, user moves) in one run
MaxWins == 1         \* sum of the win counters of the roster
MaxPending == 2      \* single-shot startRound timers pending at once

\* ---- program constants ---------------------------------------------------
RoundLimit == 5      \* endRound: m_roundsPlayed < 5

\* ---- the maps (Map is an external collaborator) ---------------------------
\* A map: its name, validity, ordered starting positions, walkable cells.
DefaultMap ==
    [name |-> "default", valid |-> TRUE,
     starts |-> << <<0, 0>>, <<2, 0>>, <<2, 1>> >>,
     walk |-> {<<0, 0>>, <<1, 0>>, <<2, 0>>, <<0, 1>>, <<2, 1>>}]

ArenaMap ==
    [name |-> "arena", valid |-> TRUE,
     starts |-> << <<0, 0>> >>,
     walk |-> {<<0, 0>>, <<1, 0>>}]

BrokenMap ==
    [name |-> "broken", valid |-> FALSE, starts |-> << >>, walk |-> {}]

Maps == {DefaultMap, ArenaMap, BrokenMap}

\* What an out-of-range read of the starting-position list can yield.
GarbagePositions == {<<-1, -1>>, <<0, 0>>}

Commands == {"", "UP", "DOWN", "LEFT", "RIGHT", "BOMB"}

VARIABLES
    m_players,      \* the roster, a sequence of players
    m_map,          \* the current map
    bombs,          \* positions of the active bombs of the current map
    timerActive,    \* m_timer.isActive()
    m_roundsPlayed, \* the round counter
    pendingStart,   \* single-shot timers that will call startRound
    roundActive,    \* a round was started and not yet resolved
    roundResolved,  \* endRound has run since a round was last started
    cmdCount,       \* command events so far
    joined,         \* players that have joined so far
    crashed,        \* the process has died (undefined behaviour hit)
    out             \* what the last handler did (signals, messages)

vars == <<m_players, m_map, bombs, timerActive, m_roundsPlayed, pendingStart,
          roundActive, roundResolved, cmdCount, joined, crashed, out>>

\* ---- helpers ------------------------------------------------------------
RemoveAt(s, i) == [k \in 1..(Len(s) - 1) |-> IF k < i THEN s[k] ELSE s[k + 1]]

Capacity(map) == Len(map.starts)

\* What a handler reports; every handler starts from this.
NoOut ==
    [op |-> "init", gameOver |-> FALSE, sent |-> << >>, endOfRound |-> {},
     matchOver |-> FALSE, scheduled |-> FALSE, kicked |-> << >>,
     rejected |-> FALSE, processed |-> {}, bombReq |-> {}, moved |-> {},
     deferred |-> FALSE, removed |-> 0, died |-> FALSE,
     oob |-> FALSE, nullDeref |-> FALSE,
     playing |-> FALSE, roundsBefore |-> 0, log |-> << >>]

Op(name) == [NoOut EXCEPT !.op = name]

\* Player::Player(parent, id, client): a fresh, alive player with no command
NewPlayer(id, pos, isNet) ==
    [id |-> id, pos |-> pos, alive |-> TRUE, command |-> "",
     wins |-> 0, net |-> isNet, conn |-> isNet, justDied |-> FALSE,
     leftInRound |-> FALSE]

\* ---- loadMap ------------------------------------------------------------
\* Kick out players if too many: from the last index down, network players only.
RECURSIVE KickAnyPlayers(_, _, _, _)
\* mutant of KickPlayers: the local player is not spared
KickAnyPlayers(ps, kicked, i, cap) ==
    IF i < 1 \/ Len(ps) <= cap
    THEN [players |-> ps, kicked |-> kicked]
    ELSE KickAnyPlayers(RemoveAt(ps, i), Append(kicked, i), i - 1, cap)

RECURSIVE KickPlayers(_, _, _, _)
KickPlayers(ps, kicked, i, cap) ==
    IF i < 1 \/ Len(ps) <= cap
    THEN [players |-> ps, kicked |-> kicked]
    ELSE IF ~ps[i].net
         THEN KickPlayers(ps, kicked, i - 1, cap)
         ELSE KickPlayers(RemoveAt(ps, i), Append(kicked, i), i - 1, cap)

\* startingPositions()[i]; g is what a read past the end yields
StartingPosition(map, i, g) ==
    IF i + 1 <= Capacity(map) THEN map.starts[i + 1] ELSE g

\* Update positions and id
UpdatePositionsAndIds(ps, map, g) ==
    [k \in 1..Len(ps) |->
        [ps[k] EXCEPT !.pos = StartingPosition(map, k - 1, g), !.id = k - 1]]

\* The roster after loadMap of a valid map.
LoadMapPlayers(ps, map, g) ==
    UpdatePositionsAndIds(
        KickPlayers(ps, << >>, Len(ps), Capacity(map)).players, map, g)

LoadMapKicked(ps, map) ==
    KickPlayers(ps, << >>, Len(ps), Capacity(map)).kicked

\* loadMap reads past the end of the starting positions
LoadMapOutOfRange(ps, map) ==
    Len(KickPlayers(ps, << >>, Len(ps), Capacity(map)).players) > Capacity(map)

Crash(name, what) ==
    /\ crashed' = TRUE
    /\ out' = [Op(name) EXCEPT ![what] = TRUE]
    /\ UNCHANGED <<m_players, m_map, bombs, timerActive, m_roundsPlayed,
                   pendingStart, roundActive, roundResolved, cmdCount, joined>>

LoadMap(map) ==
    /\ ~crashed
    /\ IF ~map.valid
       THEN /\ out' = [Op("loadMap") EXCEPT !.rejected = TRUE]
            /\ UNCHANGED <<m_players, m_map, bombs, timerActive, m_roundsPlayed,
                           pendingStart, roundActive, roundResolved, cmdCount, crashed, joined>>
       ELSE IF LoadMapOutOfRange(m_players, map)
       THEN \/ Crash("loadMap", "oob")
            \/ \E g \in GarbagePositions :
                 /\ m_map' = map
                 /\ bombs' = {}
                 /\ m_players' = LoadMapPlayers(m_players, map, g)
                 /\ out' = [Op("loadMap") EXCEPT
                               !.kicked = LoadMapKicked(m_players, map),
                               !.oob = TRUE]
                 /\ UNCHANGED <<timerActive, m_roundsPlayed, pendingStart,
                                roundActive, roundResolved, cmdCount, crashed, joined>>
       ELSE /\ m_map' = map
            /\ bombs' = {}
            /\ m_players' = LoadMapPlayers(m_players, map, <<0, 0>>)
            /\ out' = [Op("loadMap") EXCEPT
                          !.kicked = LoadMapKicked(m_players, map)]
            /\ UNCHANGED <<timerActive, m_roundsPlayed, pendingStart,
                           roundActive, roundResolved, cmdCount, crashed, joined>>

\* ---- explosionAt --------------------------------------------------------
\* Cells an exploding bomb reaches (Map's explosion geometry): the bomb's
\* cell and the walkable cells next to it.
Blast(map, b) ==
    {c \in map.walk :
        \/ c = b
        \/ (c[1] = b[1] /\ (c[2] = b[2] + 1 \/ c[2] = b[2] - 1))
        \/ (c[2] = b[2] /\ (c[1] = b[1] + 1 \/ c[1] = b[1] - 1))}

\* explosionAt(position) for every position of cells
ExplosionAt(ps, cells) ==
    [k \in 1..Len(ps) |->
        IF ps[k].pos \in cells
        THEN [ps[k] EXCEPT !.alive = FALSE, !.justDied = @ \/ ps[k].alive]
        ELSE ps[k]]

\* A bomb of the current map goes off: the map drops it and signals
\* explosionAt for each cell it reaches.
Detonate(b) ==
    /\ ~crashed
    /\ b \in bombs
    /\ bombs' = bombs \ {b}
    /\ m_players' = ExplosionAt(m_players, Blast(m_map, b))
    /\ out' = Op("explosion")
    /\ UNCHANGED <<m_map, timerActive, m_roundsPlayed, pendingStart, roundActive,
                   roundResolved, cmdCount, crashed, joined>>

\* ---- endRound -----------------------------------------------------------
RECURSIVE FirstAlive(_, _)
\* index of the first alive player at or after i, 0 if none
FirstAlive(ps, i) ==
    IF i > Len(ps) THEN 0
    ELSE IF ps[i].alive THEN i ELSE FirstAlive(ps, i + 1)

\* the first alive player gets a win
AwardWin(ps) ==
    LET w == FirstAlive(ps, 1)
    IN  IF w = 0 THEN ps ELSE [ps EXCEPT ![w].wins = @ + 1]

\* the branch of endRound that counts the round and schedules the next
RoundCounts(rounds) == rounds < RoundLimit

EndRoundPlayers(ps, rounds) ==
    IF RoundCounts(rounds) THEN AwardWin(ps) ELSE ps

EndRoundCounter(rounds) ==
    IF RoundCounts(rounds) THEN rounds + 1 ELSE 0

\* sendEndOfRound goes to every player with a network client
EndOfRoundTargets(ps) == {k \in 1..Len(ps) : ps[k].net}

TotalWins(ps) ==
    LET RECURSIVE Sum(_)
        Sum(i) == IF i > Len(ps) THEN 0 ELSE ps[i].wins + Sum(i + 1)
    IN  Sum(1)

\* the bounds of the model leave room for one more endRound
RoomToResolve(ps, rounds) ==
    RoundCounts(rounds) =>
        /\ pendingStart < MaxPending
        /\ (FirstAlive(ps, 1) # 0 => TotalWins(ps) < MaxWins)

\* endRound on roster ps; the caller sets m_roundsPlayed and out
EndRound(ps) ==
    /\ timerActive' = FALSE
    /\ roundActive' = FALSE
    /\ roundResolved' = (roundActive \/ roundResolved)
    /\ m_players' = EndRoundPlayers(ps, m_roundsPlayed)
    /\ pendingStart' = IF RoundCounts(m_roundsPlayed)
                       THEN pendingStart + 1 ELSE pendingStart

EndRoundOut(o, ps) ==
    [o EXCEPT !.endOfRound = EndOfRoundTargets(ps),
              !.scheduled = RoundCounts(m_roundsPlayed),
              !.matchOver = ~RoundCounts(m_roundsPlayed)]

\* ---- stopGame -----------------------------------------------------------
\* mutant of StopGameCounter: the counter endRound left is kept
StopGameCounterKept(rounds) == EndRoundCounter(rounds)

\* m_roundsPlayed = 0 after endRound
StopGameCounter(rounds) == 0

StopGame ==
    /\ ~crashed
    /\ RoomToResolve(m_players, m_roundsPlayed)
    /\ EndRound(m_players)
    /\ m_roundsPlayed' = StopGameCounter(m_roundsPlayed)
    /\ out' = [EndRoundOut(Op("stopGame"), m_players) EXCEPT
                  !.playing = roundActive,
                  !.roundsBefore = m_roundsPlayed]
    /\ UNCHANGED <<m_map, bombs, cmdCount, crashed, joined>>

\* ---- togglePause --------------------------------------------------------
TogglePause ==
    /\ ~crashed
    /\ timerActive' = ~timerActive
    /\ out' = Op("togglePause")
    /\ UNCHANGED <<m_players, m_map, bombs, m_roundsPlayed, pendingStart,
                   roundActive, roundResolved, cmdCount, crashed, joined>>

\* ---- startRound ---------------------------------------------------------
\* every player alive again and on its starting position
ResetPlayers(ps, map, g) ==
    [k \in 1..Len(ps) |->
        [ps[k] EXCEPT !.alive = TRUE, !.justDied = FALSE,
                      !.pos = StartingPosition(map, k - 1, g)]]

\* the roster startRound leaves: reset, then loadMap of the current map
StartRoundPlayers(ps, map, g) ==
    LoadMapPlayers(ResetPlayers(ps, map, g), map, g)

\* startRound reads past the end of the starting positions
StartRoundOutOfRange(ps, map) == Len(ps) > Capacity(map)

\* the name-change lock-out calls into networkClient() of every player:
\* TRUE when one of them has none
LockOutDerefsNull(ps) == \E k \in 1..Len(ps) : ~ps[k].net

\* fromTimer: called by a single-shot timer of endRound, else by the user
StartRound(fromTimer) ==
    /\ ~crashed
    /\ fromTimer => pendingStart > 0
    /\ LET pend == IF fromTimer THEN pendingStart - 1 ELSE pendingStart
           oob  == StartRoundOutOfRange(m_players, m_map)
       IN
       IF m_players = << >>
       THEN /\ pendingStart' = pend
            /\ out' = Op("startRound")
            /\ UNCHANGED <<m_players, m_map, bombs, timerActive, m_roundsPlayed,
                           roundActive, roundResolved, cmdCount, crashed, joined>>
       ELSE \E g \in (IF oob THEN GarbagePositions ELSE {<<0, 0>>}) :
            LET ps == StartRoundPlayers(m_players, m_map, g)
                nul == LockOutDerefsNull(ps)
            IN
            \/ /\ oob \/ nul
               /\ Crash("startRound", IF oob THEN "oob" ELSE "nullDeref")
            \/ /\ m_players' = ps
               /\ bombs' = {}
               /\ timerActive' = TRUE
               /\ roundActive' = TRUE
               /\ roundResolved' = FALSE
               /\ pendingStart' = pend
               /\ out' = [Op("startRound") EXCEPT
                             !.kicked = LoadMapKicked(m_players, m_map),
                             !.oob = oob, !.nullDeref = nul]
               /\ UNCHANGED <<m_map, m_roundsPlayed, cmdCount, crashed, joined>>

\* ---- gameTick -----------------------------------------------------------
Directions == {"UP", "DOWN", "LEFT", "RIGHT"}

\* the cell a directional command aims at
Target(pos, command) ==
    CASE command = "UP"    -> <<pos[1], pos[2] - 1>>
      [] command = "DOWN"  -> <<pos[1], pos[2] + 1>>
      [] command = "LEFT"  -> <<pos[1] - 1, pos[2]>>
      [] command = "RIGHT" -> <<pos[1] + 1, pos[2]>>
      [] OTHER             -> pos

\* Map::isValidPosition
IsValidPosition(map, pos) == pos \in map.walk

\* mutant of CanWalk: the bombs of the map are not looked at
CanWalkOverBombs(ps, bs, map, pos) ==
    /\ IsValidPosition(map, pos)
    /\ ~\E j \in 1..Len(ps) : ps[j].alive /\ ps[j].pos = pos

\* mutant of CanWalk: the other players are not looked at
CanWalkIntoPlayers(ps, bs, map, pos) ==
    /\ IsValidPosition(map, pos)
    /\ pos \notin bs

\* canWalk: walkable, no alive player there, no bomb there
CanWalk(ps, bs, map, pos) ==
    /\ IsValidPosition(map, pos)
    /\ ~\E j \in 1..Len(ps) : ps[j].alive /\ ps[j].pos = pos
    /\ pos \notin bs

\* one iteration of the command loop, for roster index i
\* what a player with a directional command finds when its turn comes: the
\* cells of the alive players and the cells of the bombs
Moment(st, i) ==
    [who |-> i,
     occupied |-> {st.players[j].pos :
                      j \in {k \in 1..Len(st.players) : st.players[k].alive}},
     bombs |-> st.bombs]

\* mutant of ResolveCommand: the command is taken from the player and dropped
ResolveCommandClearing(st, map, i) ==
    [st EXCEPT !.processed = @ \cup {i}, !.players[i].command = ""]

\* st = [players, bombs, processed, bombReq, moved, log]
ResolveCommand(st, map, i) ==
    LET p == st.players[i]
        t == Target(p.pos, p.command)
        s == [st EXCEPT !.processed = @ \cup {i}]
    IN  IF p.command = "" THEN s
        ELSE IF p.command \in Directions
        THEN LET m == [s EXCEPT !.log = Append(@, Moment(st, i))]
             IN  IF CanWalk(s.players, s.bombs, map, t)
                 THEN [m EXCEPT !.players[i].pos = t, !.moved = @ \cup {i}]
                 ELSE m
        ELSE IF p.command = "BOMB"
        THEN [s EXCEPT !.bombs = @ \cup {p.pos}, !.bombReq = @ \cup {i}]
        ELSE s

RECURSIVE ResolveIntents(_, _, _, _)
\* the command loop over the shuffled list, from position k on
ResolveIntents(st, map, order, k) ==
    IF k > Len(order) THEN st
    ELSE ResolveIntents(ResolveCommand(st, map, order[k]), map, order, k + 1)

\* the shuffles of n players (qrand-driven Fisher-Yates reaches all of them)
Shuffles(n) == Permutations(1..n)

\* a tick has seen the deaths so far (bookkeeping)
SeenDeaths(ps) == [k \in 1..Len(ps) |-> [ps[k] EXCEPT !.justDied = FALSE]]

DeadCount(ps) == Cardinality({k \in 1..Len(ps) : ~ps[k].alive})

\* mutant of RoundOver: the dead > 0 test is missing
RoundOverWithoutDeath(ps) == Len(ps) - DeadCount(ps) < 2

\* dead > 0 && players.size() - dead < 2
RoundOver(ps) == DeadCount(ps) > 0 /\ Len(ps) - DeadCount(ps) < 2

\* the alive players of the roster (their roster indices), in roster order
AlivePlayers(ps) ==
    SelectSeq([k \in 1..Len(ps) |-> k], LAMBDA k : ps[k].alive)

\* mutant of Opponents: the recipient stays in its own list
OpponentsWithSelf(alive, i) == alive

\* the list sent to the i-th alive player: the alive players without it
Opponents(alive, i) == RemoveAt(alive, i)

\* players without a network client get nothing
HasChannel(p) == p.net

\* the sendState calls of one tick, in order
Snapshots(ps) ==
    LET alive == AlivePlayers(ps)
        idx == SelectSeq([k \in 1..Len(alive) |-> k],
                         LAMBDA k : HasChannel(ps[alive[k]]))
    IN  [j \in 1..Len(idx) |->
            [to |-> alive[idx[j]],
             opponents |-> Opponents(alive, idx[j])]]

GameTick ==
    /\ ~crashed
    /\ timerActive
    /\ \E order \in Shuffles(Len(m_players)) :
        LET st == ResolveIntents([players |-> m_players, bombs |-> bombs,
                                  processed |-> {}, bombReq |-> {},
                                  moved |-> {}, log |-> << >>],
                                 m_map, order, 1)
            ps == SeenDeaths(st.players)
            o == [Op("gameTick") EXCEPT
                     !.processed = st.processed,
                     !.log = st.log,
                     !.bombReq = st.bombReq,
                     !.moved = st.moved,
                     !.died = \E k \in 1..Len(m_players) :
                                 m_players[k].justDied]
        IN  /\ bombs' = st.bombs
            /\ IF RoundOver(ps)
               THEN /\ RoomToResolve(ps, m_roundsPlayed)
                    /\ EndRound(ps)
                    /\ m_roundsPlayed' = EndRoundCounter(m_roundsPlayed)
                    /\ out' = EndRoundOut([o EXCEPT !.gameOver = TRUE], ps)
               ELSE /\ m_players' = ps
                    /\ out' = [o EXCEPT !.sent = Snapshots(ps)]
                    /\ UNCHANGED <<timerActive, roundActive, roundResolved, m_roundsPlayed,
                                   pendingStart, joined>>
    /\ UNCHANGED <<m_map, cmdCount, crashed, joined>>

\* ---- addPlayer, clientConnect --------------------------------------------
RosterFull(ps, map) == Len(ps) >= Capacity(map)

\* addPlayer(client): isNet tells whether client is given
AddPlayer(ps, map, isNet) ==
    IF RosterFull(ps, map) THEN ps
    ELSE Append(ps, NewPlayer(Len(ps), map.starts[Len(ps) + 1], isNet))

\* clientConnect refuses the socket
ConnectRefused(ps, map, active) == RosterFull(ps, map) \/ active

ClientConnect ==
    /\ ~crashed
    /\ IF ConnectRefused(m_players, m_map, timerActive)
       THEN /\ out' = [Op("clientConnect") EXCEPT !.rejected = TRUE]
            /\ UNCHANGED <<m_players, joined>>
       ELSE /\ joined < MaxJoins
            /\ m_players' = AddPlayer(m_players, m_map, TRUE)
            /\ joined' = joined + 1
            /\ out' = Op("clientConnect")
    /\ UNCHANGED <<m_map, bombs, timerActive, m_roundsPlayed, pendingStart,
                   roundActive, roundResolved, cmdCount, crashed>>

\* addPlayer() without a client: the local user joins
AddLocalPlayer ==
    /\ ~crashed
    /\ IF RosterFull(m_players, m_map)
       THEN /\ out' = [Op("addPlayer") EXCEPT !.rejected = TRUE]
            /\ UNCHANGED <<m_players, joined>>
       ELSE /\ joined < MaxJoins
            /\ m_players' = AddPlayer(m_players, m_map, FALSE)
            /\ joined' = joined + 1
            /\ out' = Op("addPlayer")
    /\ UNCHANGED <<m_map, bombs, timerActive, m_roundsPlayed, pendingStart,
                   roundActive, roundResolved, cmdCount, crashed>>

\* ---- clientDisconnected, removeHumanPlayers -----------------------------
\* setId(i) for every player
Renumber(ps) == [k \in 1..Len(ps) |-> [ps[k] EXCEPT !.id = k - 1]]

\* mutant of RemovePlayer: the ids are left as they were
RemoveWithoutRenumber(ps, i) == RemoveAt(ps, i)

\* takeAt(index), then renumber
RemovePlayer(ps, i) == Renumber(RemoveAt(ps, i))

\* the handler returns at once
DisconnectDeferred(active) == active

\* the channel of roster entry i closes; the player signals clientDisconnected
ClientDisconnected(i) ==
    /\ ~crashed
    /\ i \in 1..Len(m_players)
    /\ m_players[i].net /\ m_players[i].conn
    /\ LET ps == [m_players EXCEPT ![i].conn = FALSE,
                                   ![i].leftInRound = roundActive]
       IN  IF DisconnectDeferred(timerActive)
           THEN /\ m_players' = ps
                /\ out' = [Op("clientDisconnected") EXCEPT !.deferred = TRUE]
           ELSE /\ m_players' = RemovePlayer(ps, i)
                /\ out' = [Op("clientDisconnected") EXCEPT !.removed = i]
    /\ UNCHANGED <<m_map, bombs, timerActive, m_roundsPlayed, pendingStart,
                   roundActive, roundResolved, cmdCount, crashed, joined>>

RECURSIVE FirstLocal(_, _)
\* index of the first player without a network client at or after i, 0 if none
FirstLocal(ps, i) ==
    IF i > Len(ps) THEN 0
    ELSE IF ~ps[i].net THEN i ELSE FirstLocal(ps, i + 1)

RemoveHumanPlayers ==
    /\ ~crashed
    /\ LET h == FirstLocal(m_players, 1)
       IN  m_players' = IF h = 0 THEN Renumber(m_players)
                        ELSE RemovePlayer(m_players, h)
    /\ out' = [Op("removeHumanPlayers") EXCEPT
                  !.removed = FirstLocal(m_players, 1)]
    /\ UNCHANGED <<m_map, bombs, timerActive, m_roundsPlayed, pendingStart,
                   roundActive, roundResolved, cmdCount, crashed, joined>>

\* ---- commands -----------------------------------------------------------
\* a command arrives on the channel of roster entry i
NetCommand(i, c) ==
    /\ ~crashed
    /\ cmdCount < MaxCommands
    /\ i \in 1..Len(m_players)
    /\ m_players[i].net /\ m_players[i].conn
    /\ m_players[i].command # c
    /\ m_players' = [m_players EXCEPT ![i].command = c]
    /\ cmdCount' = cmdCount + 1
    /\ out' = Op("setCommand")
    /\ UNCHANGED <<m_map, bombs, timerActive, m_roundsPlayed, pendingStart,
                   roundActive, roundResolved, crashed, joined>>

\* userMove(c) of the view is connected to every local player's setCommand
UserMove(c) ==
    /\ ~crashed
    /\ cmdCount < MaxCommands
    /\ \E k \in 1..Len(m_players) : ~m_players[k].net /\ m_players[k].command # c
    /\ m_players' = [k \in 1..Len(m_players) |->
                        IF m_players[k].net THEN m_players[k]
                        ELSE [m_players[k] EXCEPT !.command = c]]
    /\ cmdCount' = cmdCount + 1
    /\ out' = Op("userMove")
    /\ UNCHANGED <<m_map, bombs, timerActive, m_roundsPlayed, pendingStart,
                   roundActive, roundResolved, crashed, joined>>

\* ---- the program --------------------------------------------------------
\* GameManager::GameManager: the default map loaded, nobody there, timer idle
Init ==
    /\ m_players = << >>
    /\ m_map = DefaultMap
    /\ bombs = {}
    /\ timerActive = FALSE
    /\ m_roundsPlayed = 0
    /\ pendingStart = 0
    /\ roundActive = FALSE
    /\ roundResolved = FALSE
    /\ cmdCount = 0
    /\ joined = 0
    /\ crashed = FALSE
    /\ out = NoOut

\* every handler, under every input
Next ==
    \/ \E map \in Maps : LoadMap(map)
    \/ \E b \in bombs : Detonate(b)
    \/ StopGame
    \/ TogglePause
    \/ \E t \in BOOLEAN : StartRound(t)
    \/ GameTick
    \/ ClientConnect
    \/ AddLocalPlayer
    \/ \E i \in 1..Len(m_players) : ClientDisconnected(i)
    \/ RemoveHumanPlayers
    \/ \E i \in 1..Len(m_players), c \in Commands : NetCommand(i, c)
    \/ \E c \in Commands : UserMove(c)

Spec == Init /\ [][Next]_vars

\* the game being played by network clients that stay connected: no map
\* change, no local user, no manual stop
NextPlay ==
    \/ ClientConnect
    \/ \E t \in BOOLEAN : StartRound(t)
    \/ \E i \in 1..Len(m_players), c \in Commands : NetCommand(i, c)
    \/ GameTick
    \/ \E b \in bombs : Detonate(b)
    \/ TogglePause

SpecPlay == Init /\ [][NextPlay]_vars

\* the roster being managed: no commands, hence no bombs
NextLobby ==
    \/ ClientConnect
    \/ \E t \in BOOLEAN : StartRound(t)
    \/ GameTick
    \/ TogglePause
    \/ \E i \in 1..Len(m_players) : ClientDisconnected(i)
    \/ AddLocalPlayer
    \/ RemoveHumanPlayers
    \/ \E map \in Maps : LoadMap(map)
    \/ StopGame

SpecLobby == Init /\ [][NextLobby]_vars

\* a round of the default map with a full roster of network players, each
\* of which sent a command before the round was started
InitTick ==
    /\ \E cs \in [1..Capacity(DefaultMap) -> Commands] :
          m_players = [k \in 1..Capacity(DefaultMap) |->
                          [NewPlayer(k - 1, DefaultMap.starts[k], TRUE)
                              EXCEPT !.command = cs[k]]]
    /\ m_map = DefaultMap
    /\ bombs = {}
    /\ timerActive = TRUE
    /\ m_roundsPlayed = 0
    /\ pendingStart = 0
    /\ roundActive = TRUE
    /\ roundResolved = FALSE
    /\ cmdCount = 0
    /\ joined = Capacity(DefaultMap)
    /\ crashed = FALSE
    /\ out = Op("startRound")

\* the commands stay as they are: ticks, explosions, manual stops and the
\* next rounds
NextTick ==
    \/ GameTick
    \/ \E b \in bombs : Detonate(b)
    \/ \E t \in BOOLEAN : StartRound(t)
    \/ StopGame

SpecTick == InitTick /\ [][NextTick]_vars

\* ==== the claims ==========================================================
AliveSet(ps) == {k \in 1..Len(ps) : ps[k].alive}

C2_OpponentsAreOtherAlivePlayers ==
    out.op = "gameTick" =>
        \A j \in 1..Len(out.sent) :
            LET snap == out.sent[j]
            IN  /\ snap.to \in 1..Len(m_players)
                /\ {snap.opponents[k] : k \in 1..Len(snap.opponents)}
                       = AliveSet(m_players) \ {snap.to}
                /\ Len(snap.opponents)
                       = Cardinality(AliveSet(m_players) \ {snap.to})

\* a snapshot went out while a dead player was in the roster
C2_Witness ==
    /\ out.op = "gameTick"
    /\ Len(out.sent) >= 2
    /\ \E k \in 1..Len(m_players) : ~m_players[k].alive

\* the step is a round resolution (endRound ran)
Resolution == out'.scheduled \/ out'.matchOver

\* C3 (as stated): every round resolution gives exactly one win to the alive
\* player with the lowest id, and changes no win counter when nobody is alive.
C3_ResolutionAwardsLowestAlive ==
    [][Resolution =>
        /\ Len(m_players') = Len(m_players)
        /\ \A k \in 1..Len(m_players) :
              m_players'[k].wins =
                  IF m_players'[k].alive
                     /\ \A j \in 1..(k - 1) : ~m_players'[j].alive
                  THEN m_players[k].wins + 1
                  ELSE m_players[k].wins]_vars

\* C4 (as stated): counting from round counter 0, the 5th resolution is the
\* match-over step (counter back to 0, nothing scheduled); the first four
\* each count the round and schedule the next.
C4_FifthResolutionEndsMatch ==
    [][out'.gameOver =>
        IF m_roundsPlayed < RoundLimit - 1
        THEN /\ m_roundsPlayed' = m_roundsPlayed + 1
             /\ out'.scheduled /\ ~out'.matchOver
        ELSE /\ m_roundsPlayed' = 0
             /\ out'.matchOver /\ ~out'.scheduled
             /\ pendingStart' = pendingStart]_vars

\* C5 (as stated): a connection that arrives while the roster is full or a
\* round is in progress (running or paused) creates no player.
C5_ConnectRefusedDuringRound ==
    [][(out'.op = "clientConnect"
          /\ (Len(m_players) >= Capacity(m_map) \/ roundActive))
        => (out'.rejected /\ m_players' = m_players)]_vars

\* C6 (as stated): a disconnect during a round (running or paused) removes
\* nobody and changes no id.
C6_DisconnectDeferredDuringRound ==
    [][(out'.op = "clientDisconnected" /\ roundActive)
        => /\ Len(m_players') = Len(m_players)
           /\ \A k \in 1..Len(m_players) :
                 m_players'[k].id = m_players[k].id]_vars

\* C7: every player's id is its index in the roster.
C7_IdIsRosterIndex ==
    \A k \in 1..Len(m_players) : m_players[k].id = k - 1

\* a player that was not the last one left the roster
C7_Witness ==
    /\ out.op \in {"clientDisconnected", "removeHumanPlayers"}
    /\ out.removed >= 1
    /\ out.removed <= Len(m_players)

\* a player without its position and id
Identity(p) == [alive |-> p.alive, command |-> p.command, wins |-> p.wins,
                net |-> p.net, conn |-> p.conn, justDied |-> p.justDied,
                leftInRound |-> p.leftInRound]

\* C8: a completed load of a valid map with fewer starting positions than
\* players removes network players only, from the highest index down, no
\* more than needed, and keeps the others in order.
C8_LoadMapKicksNetworkFromTheEnd ==
    [][(out'.op = "loadMap" /\ ~out'.rejected /\ ~crashed'
          /\ Capacity(m_map') < Len(m_players))
        => LET kicked == out'.kicked
               gone == {kicked[j] : j \in 1..Len(kicked)}
               kept == SelectSeq([k \in 1..Len(m_players) |-> k],
                                 LAMBDA k : k \notin gone)
               excess == Len(m_players) - Capacity(m_map')
           IN  /\ \A j \in 1..Len(kicked) : m_players[kicked[j]].net
               /\ \A j \in 1..(Len(kicked) - 1) : kicked[j] > kicked[j + 1]
               /\ \A k \in 1..Len(m_players) :
                     (m_players[k].net /\ k \notin gone)
                         => \A g \in gone : k < g
               /\ Len(kicked) <= excess
               /\ Len(kicked) < excess
                     => \A k \in 1..Len(m_players) :
                           m_players[k].net => k \in gone
               /\ Len(m_players') = Len(kept)
               /\ \A j \in 1..Len(kept) :
                     Identity(m_players'[j]) = Identity(m_players[kept[j]])
       ]_vars

\* two network players were kicked around a local one, which stayed
C8_Witness ==
    /\ out.op = "loadMap"
    /\ Len(out.kicked) = 2
    /\ \E k \in 1..Len(m_players) : ~m_players[k].net

\* C9 (as stated): the roster never outgrows the starting positions of the
\* current map, and no handler reads past their end.
C9_RosterFitsStartingPositions ==
    Len(m_players) <= Capacity(m_map) /\ ~out.oob

\* C10 (as stated): a tick sends no snapshot to a dead or disconnected
\* player, and when it does not end the round it sends exactly one to every
\* alive, connected network player.
C10_SnapshotsOnlyToLiveChannels ==
    out.op = "gameTick" =>
        /\ \A j \in 1..Len(out.sent) :
              /\ m_players[out.sent[j].to].alive
              /\ m_players[out.sent[j].to].conn
        /\ ~out.gameOver =>
              \A k \in 1..Len(m_players) :
                  (m_players[k].alive /\ m_players[k].net /\ m_players[k].conn)
                      => Cardinality({j \in 1..Len(out.sent) :
                                         out.sent[j].to = k}) = 1

\* C11 (as stated): the players a tick processes are exactly the players that
\* are alive when it starts; no dead player is processed.
C11_ProcessedAreTheAlivePlayers ==
    [][out'.op = "gameTick" => out'.processed = AliveSet(m_players)]_vars

\* C12: a manual stop while a round is played resolves the round at once,
\* whoever is alive: the tick timer is stopped, the end-of-round notification
\* goes to every player with a network client, and the round counter is 0
\* afterwards whatever it was.
C12_StopResolvesAndResetsCounter ==
    [][(out'.op = "stopGame" /\ roundActive)
        => /\ Resolution
           /\ ~timerActive'
           /\ ~roundActive'
           /\ out'.endOfRound = {k \in 1..Len(m_players) : m_players[k].net}
           /\ m_roundsPlayed' = 0]_vars

\* a round with everybody alive and the counter above 0 was stopped by hand
C12_Witness ==
    /\ out.op = "stopGame"
    /\ out.playing
    /\ out.roundsBefore > 0
    /\ out.endOfRound # {}
    /\ \A k \in 1..Len(m_players) : m_players[k].alive

\* the cell one step from pos in the direction of the command
Offset(pos, command) ==
    <<pos[1] + (IF command = "RIGHT" THEN 1 ELSE 0)
             - (IF command = "LEFT" THEN 1 ELSE 0),
      pos[2] + (IF command = "DOWN" THEN 1 ELSE 0)
             - (IF command = "UP" THEN 1 ELSE 0)>>

Abs(n) == IF n < 0 THEN -n ELSE n

\* C13: in a tick, every player with a directional command has exactly one
\* turn; it ends on the cell one step in that direction if and only if, when
\* its turn comes, that cell is walkable, holds no alive player and holds no
\* bomb, and stays where it was otherwise; nobody moves more than one cell
\* along one axis in a tick.
C13_MoveIffTargetFree ==
    [][out'.op = "gameTick" =>
        /\ Len(m_players') = Len(m_players)
        /\ \A k \in 1..Len(m_players) :
              m_players[k].command \in Directions
                  <=> Cardinality({j \in 1..Len(out'.log) :
                                      out'.log[j].who = k}) = 1
        /\ \A j \in 1..Len(out'.log) :
              LET e == out'.log[j]
                  from == m_players[e.who].pos
                  t == Offset(from, m_players[e.who].command)
                  free == /\ t \in m_map.walk
                          /\ t \notin e.occupied
                          /\ t \notin e.bombs
              IN  /\ free => m_players'[e.who].pos = t
                  /\ ~free => m_players'[e.who].pos = from
                  /\ t # from
        /\ \A k \in 1..Len(m_players) :
              Abs(m_players'[k].pos[1] - m_players[k].pos[1])
                + Abs(m_players'[k].pos[2] - m_players[k].pos[2]) <= 1]_vars

\* a player's move was refused because of a bomb on a walkable cell without
\* an alive player, after another player had moved in the same tick
C13_Witness ==
    /\ out.op = "gameTick"
    /\ out.moved # {}
    /\ \E j \in 1..Len(out.log) :
          LET e == out.log[j]
              t == Offset(m_players[e.who].pos, m_players[e.who].command)
          IN  /\ e.who \notin out.moved
              /\ t \in m_map.walk
              /\ t \notin e.occupied
              /\ t \in e.bombs

\* no two alive players of ps on the same cell
AliveApart(ps) ==
    \A i, j \in 1..Len(ps) :
        (i # j /\ ps[i].alive /\ ps[j].alive) => ps[i].pos # ps[j].pos

\* C14: a tick that starts with no two alive players on the same cell ends
\* with no two alive players on the same cell, whatever the shuffle and the
\* commands.
C14_TickKeepsAlivePlayersApart ==
    [][(out'.op = "gameTick" /\ AliveApart(m_players))
        => AliveApart(m_players')]_vars

\* two alive players had the same free cell as target: one of them got it
C14_Witness ==
    /\ out.op = "gameTick"
    /\ \E i, j \in 1..Len(m_players) :
          /\ i # j
          /\ m_players[i].alive /\ m_players[j].alive
          /\ m_players[i].command \in Directions
          /\ m_players[j].command \in Directions
          /\ i \in out.moved /\ j \notin out.moved
          /\ Offset(m_players[j].pos, m_players[j].command) = m_players[i].pos
          /\ \E e \in {out.log[n] : n \in 1..Len(out.log)} :
                e.who = i /\ m_players[j].pos \in e.occupied
                          /\ m_players[i].pos \notin e.occupied

C16_StartRoundResetsAndStarts ==
    [][out'.op = "startRound" =>
        IF m_players = << >>
        THEN /\ m_players' = m_players
             /\ m_map' = m_map
             /\ bombs' = bombs
             /\ timerActive' = timerActive
             /\ m_roundsPlayed' = m_roundsPlayed
        ELSE /\ Len(m_players') >= 1
             /\ Len(m_players') <= Capacity(m_map')
             /\ \A k \in 1..Len(m_players') :
                   /\ m_players'[k].alive
                   /\ k <= Capacity(m_map')
                         => m_players'[k].pos = m_map'.starts[k]
             /\ bombs' = {}
             /\ timerActive']_vars

\* C17 (as stated, its part about the next round): when a round is started
\* after the previous one ended, no player whose channel closed during a
\* round is in the roster any more.
C17_DisconnectedGoneAtNextRound ==
    [][(out'.op = "startRound" /\ ~roundActive /\ ~timerActive
          /\ ~crashed' /\ timerActive')
        => \A k \in 1..Len(m_players') : ~m_players'[k].leftInRound]_vars

\* C18 (as stated): endRound runs at most once for a started round, whatever
\* ticks, pause toggles and manual stops come between two start-rounds.
C18_RoundResolvedAtMostOnce ==
    [][Resolution => ~roundResolved]_vars

\* C19 (as stated): a tick leaves a dead player where it is and requests no
\* bomb for it, whatever its command.
C19_DeadPlayersAreInert ==
    [][out'.op = "gameTick" =>
        \A k \in 1..Len(m_players) :
            ~m_players[k].alive =>
                /\ m_players'[k].pos = m_players[k].pos
                /\ k \notin out'.bombReq]_vars

\* C20 (as stated): start-round with a roster that fits the map, local
\* players included, calls into no absent network client and leaves the tick
\* timer running.
C20_LockOutSkipsLocalPlayers ==
    [][(out'.op = "startRound" /\ m_players # << >>
          /\ Len(m_players) <= Capacity(m_map))
        => (~out'.nullDeref /\ timerActive')]_vars

====
